---- MODULE Spec2Model ----
(***************************************************************************)
(* Request handlers of the two services of the repository:                 *)
(*   REST API/server.js    express + postgres.js + zod   (relational)      *)
(*   NosqlNodejs/index.js  express + mongodb + zod       (document)        *)
(*                                                                         *)
(* One action per route handler.  A request is served in one step: the     *)
(* handler's validation, its datastore statements and its response.  The   *)
(* datastore is the state; the last request, its response, the tables as   *)
(* they were before it and the number of statements it sent are kept so    *)
(* that properties of a single request/response pair are state predicates. *)
(*                                                                         *)
(* Money is in whole units; an order total is kept in tenths of a unit so  *)
(* that price * quantity * 1.2 stays an integer (see vatRate).             *)
(* The createdAt/updatedAt columns of orders (NOW()) are not modelled.     *)
(***************************************************************************)
EXTENDS Integers, FiniteSets, Sequences, TLC

VARIABLES
    sql,            \* server.js:6   the relational database behind `sql`
    db,             \* index.js:13   the document database behind `db`
    quotedColumns,  \* how the orders table was created (see OrdersInsertable)
    omitByKey,      \* which zod release is installed (see getUsers)
    req,            \* the request served last
    res,            \* what its handler did with `res`
    before,         \* the tables as they were when the request arrived
    stmts,          \* number of statements the handler sent to the datastore
    pending         \* server.js:499  a POST /orders handler suspended at an await

vars == <<sql, db, quotedColumns, omitByKey, req, res, before, stmts, pending>>

---------------------------------------------------------------------------
(* Bounds of the model *)

\* serial identifiers 1..MaxId are handed out; MaxId + 1 is never stored
MaxId == 2
\* prices a client submits: 0..MaxPrice (0 fails z.number().positive())
MaxPrice == 2
\* quantities a client submits: 0..MaxQuantity
MaxQuantity == 2
\* order identifiers 1..MaxOrders are handed out
MaxOrders == 1

Ids == 1..(MaxId + 1)
OrderIds == 1..(MaxOrders + 1)

---------------------------------------------------------------------------
(* Values of JavaScript that the handlers meet *)

\* parseFloat of a text with no leading number
NaN == -1

\* The identifiers server.js declares at module scope (const ... = ...).
\* A handler that evaluates any other bare identifier raises ReferenceError.
Declared ==
    {"express", "postgres", "z", "app", "port", "sql", "swaggerUi",
     "swaggerJsdoc", "options", "specs", "ProductSchema",
     "CreateProductSchema", "UserSchema", "UpdateUserSchema",
     "CreateOrderSchema", "UpdateOrderSchema", "CreateUserSchema", "getUsers"}

\* obj[key] !== undefined
Has(obj, key) == key \in DOMAIN obj

\* the object restricted to some of its keys
Pick(obj, keys) == [k \in (DOMAIN obj) \cap keys |-> obj[k]]

\* the object with the fields of `upd` written over it
Assign(obj, upd) == [k \in (DOMAIN obj) \cup (DOMAIN upd) |->
                        IF k \in DOMAIN upd THEN upd[k] ELSE obj[k]]

---------------------------------------------------------------------------
(* What a handler does with `res` *)

NoBody == [kind |-> "none", rows |-> {}, message |-> "", error |-> ""]

\* res.status(s).json(array)
SendRows(s, rows) ==
    [status |-> s, thrown |-> "none",
     body |-> [kind |-> "rows", rows |-> rows, message |-> "", error |-> ""]]

\* res.status(s).json(object)
SendRow(s, row) ==
    [status |-> s, thrown |-> "none",
     body |-> [kind |-> "row", rows |-> {row}, message |-> "", error |-> ""]]

\* res.json(undefined): express sends status 200 with an empty body
SendEmpty(s) ==
    [status |-> s, thrown |-> "none",
     body |-> [kind |-> "empty", rows |-> {}, message |-> "", error |-> ""]]

\* res.status(s).json({ message })
SendMessage(s, m) ==
    [status |-> s, thrown |-> "none",
     body |-> [kind |-> "message", rows |-> {}, message |-> m, error |-> ""]]

\* res.status(s).json({ message, error: error.message })
SendError(s, m, e) ==
    [status |-> s, thrown |-> "none",
     body |-> [kind |-> "message", rows |-> {}, message |-> m, error |-> e]]

\* the async handler rejects before it has used `res`: the handler sends
\* nothing (express 4 leaves the request unanswered, express 5 hands the
\* error to its own error middleware)
Throw(e) == [status |-> 0, thrown |-> e, body |-> NoBody]

\* res.json(x) where x is a row or undefined
Json(found) ==
    IF found = {} THEN SendEmpty(200)
    ELSE SendRow(200, CHOOSE r \in found : TRUE)

\* what a handler leaves behind: the database, the response, the statements sent
Outcome(s, r, n) == [sql |-> s, res |-> r, stmts |-> n]

Tables(s) == [products |-> s.products, users |-> s.users, orders |-> s.orders]

---------------------------------------------------------------------------
(* REST API/server.js : products *)

\* CreateProductSchema.safeParse(body).success
ValidCreateProduct(body) ==
    /\ Has(body, "name")
    /\ Has(body, "about")
    /\ Has(body, "price")
    /\ body.price > 0

\* if (x) on a query-string value: undefined and "" are falsy
Truthy(query, key) == Has(query, key) /\ query[key] # ""

\* parseFloat on the texts the model sends as ?price=
parseFloat(text) ==
    CASE text = "1" -> 1
      [] text = "2" -> 2
      [] text = "2.0" -> 2
      [] text = "2abc" -> 2
      [] text = "3" -> 3
      [] OTHER -> NaN

\* the conditions array: each entry names its column and its placeholder $n
Conditions(query) ==
    LET c1 == IF Truthy(query, "name")
              THEN <<[column |-> "name", param |-> 1]>> ELSE <<>>
        c2 == IF Truthy(query, "about")
              THEN Append(c1, [column |-> "about", param |-> Len(c1) + 1])
              ELSE c1
        c3 == IF Truthy(query, "price")
              THEN Append(c2, [column |-> "price", param |-> Len(c2) + 1])
              ELSE c2
    IN  c3

\* the values array bound to the placeholders
Values(query) ==
    LET v1 == IF Truthy(query, "name") THEN <<query.name>> ELSE <<>>
        v2 == IF Truthy(query, "about") THEN Append(v1, query.about) ELSE v1
        v3 == IF Truthy(query, "price")
              THEN Append(v2, parseFloat(query.price)) ELSE v2
    IN  v3

WhereAny(row, conditions, values) ==
    \E i \in 1..Len(conditions) :
        row[conditions[i].column] = values[conditions[i].param]

\* conditions.join(" AND ") evaluated on a row; no WHERE when the array is empty
Where(row, conditions, values) ==
    \A i \in 1..Len(conditions) :
        row[conditions[i].column] = values[conditions[i].param]

\* app.get("/products")
getProducts(s, query, fail) ==
    IF fail = 1
    THEN Outcome(s, SendError(500, "Error accessing the database", "db"), 1)
    ELSE Outcome(s,
                 SendRows(200, {r \in s.products :
                                  Where(r, Conditions(query), Values(query))}),
                 1)

\* app.get("/products/:id")
getProductById(s, id, fail) ==
    IF fail = 1 THEN Outcome(s, Throw("DatastoreError"), 1)
    ELSE LET result == {r \in s.products : r.id = id}
         IN  IF result = {}
             THEN \* product is undefined: product.length raises
                  Outcome(s, Throw("TypeError"), 1)
             ELSE LET product == CHOOSE r \in result : TRUE
                  IN  IF Has(product, "length") /\ product.length > 0
                      THEN Outcome(s, SendRow(200, product), 1)
                      ELSE Outcome(s, SendMessage(404, "Produit non trouve"), 1)

\* app.post("/products")
postProducts(s, body, fail) ==
    IF ValidCreateProduct(body)
    THEN IF fail = 1 THEN Outcome(s, Throw("DatastoreError"), 1)
         ELSE LET product == [id |-> s.nextId.products, name |-> body.name,
                              about |-> body.about, price |-> body.price]
                  t == [s EXCEPT !.products = @ \cup {product},
                                 !.nextId.products = @ + 1]
              IN  \* res.json(product[0]) where product is the inserted row
                  IF Has(product, "0")
                  THEN Outcome(t, SendRow(200, product["0"]), 1)
                  ELSE Outcome(t, SendEmpty(200), 1)
    ELSE Outcome(s, SendMessage(400, "Invalid request body"), 0)

\* app.delete("/products/:id")
deleteProduct(s, id, fail) ==
    IF fail = 1 THEN Outcome(s, Throw("DatastoreError"), 1)
    ELSE LET result == {r \in s.products : r.id = id}
             t == [s EXCEPT !.products = @ \ result]
         IN  IF result = {}
             THEN Outcome(t, Throw("TypeError"), 1)
             ELSE LET product == CHOOSE r \in result : TRUE
                  IN  IF Has(product, "length") /\ product.length > 0
                      THEN Outcome(t, SendRow(200, product), 1)
                      ELSE Outcome(t, SendMessage(404, "Produit non trouve"), 1)

---------------------------------------------------------------------------
(* REST API/server.js : users *)

\* bcrypt.hash(password, 10): a text that is not the password
hash(password) == "$2b$10$" \o password

\* z.string().email() on the texts the model sends
IsEmail(text) == text \in {"a@x.io", "b@x.io"}

\* CreateUserSchema.safeParse(body).success
ValidCreateUser(body) ==
    /\ Has(body, "name")
    /\ Has(body, "email")
    /\ Has(body, "password")

\* UpdateUserSchema.safeParse(body).success
ValidUpdateUser(body) ==
    /\ Has(body, "email") => IsEmail(body.email)
    /\ Has(body, "password") => Len(body.password) >= 5

\* getUsers = UserSchema.omit({ password: false }), then getUsers.parse(row).
\* zod up to 3.19 omits every key of the mask; later releases omit the keys
\* whose mask value is truthy, so that the password stays in the shape.
getUsers(row, byKey) ==
    IF byKey THEN Pick(row, {"id", "name", "email"})
    ELSE Pick(row, {"id", "name", "email", "password"})

\* app.get("/users")
getUsersList(s, byKey, fail) ==
    IF fail = 1 THEN Outcome(s, Throw("DatastoreError"), 1)
    ELSE Outcome(s, SendRows(200, {getUsers(u, byKey) : u \in s.users}), 1)

\* app.get("/users/:id")
getUserById(s, id, fail) ==
    IF fail = 1 THEN Outcome(s, Throw("DatastoreError"), 1)
    ELSE LET user == {u \in s.users : u.id = id}
         IN  IF user # {}
             THEN Outcome(s, Json(user), 1)
             ELSE Outcome(s, SendMessage(404, "User not found"), 1)

\* app.post("/users")
postUsers(s, body, fail) ==
    IF ValidCreateUser(body)
    THEN IF "bcrypt" \notin Declared
         THEN Outcome(s, Throw("ReferenceError"), 0)
         ELSE LET data == [name |-> body.name, email |-> body.email,
                           password |-> hash(body.password)]
                  user == Assign(data, [id |-> s.nextId.users])
              IN  IF fail = 1 THEN Outcome(s, Throw("DatastoreError"), 1)
                  ELSE Outcome([s EXCEPT !.users = @ \cup {user},
                                         !.nextId.users = @ + 1],
                               SendRow(200, data), 1)
    ELSE Outcome(s, SendMessage(400, "Invalid request body"), 0)

\* app.delete("/users/:id")
deleteUser(s, id, fail) ==
    IF fail = 1 THEN Outcome(s, Throw("DatastoreError"), 1)
    ELSE LET user == {u \in s.users : u.id = id}
             t == [s EXCEPT !.users = @ \ user]
         IN  IF user # {}
             THEN Outcome(t, Json(user), 1)
             ELSE Outcome(t, SendMessage(404, "User not found"), 1)

\* UPDATE users SET ... WHERE id = ... RETURNING *
UpdateUsers(s, id, set) ==
    [s EXCEPT !.users = {IF u.id = id THEN Assign(u, set) ELSE u : u \in @}]

\* app.put("/users/:id")
putUser(s, id, body, fail) ==
    IF ValidCreateUser(body)
    THEN IF fail = 1 THEN Outcome(s, Throw("DatastoreError"), 1)
         ELSE LET t == UpdateUsers(s, id, Pick(body, {"name", "email", "password"}))
              IN  Outcome(t, Json({u \in t.users : u.id = id}), 1)
    ELSE Outcome(s, SendMessage(400, "Invalid request body"), 0)

\* app.patch("/users/:id"); line 452 evaluates the identifier `i`
patchUser(s, id, body, fail) ==
    IF "i" \notin Declared THEN Outcome(s, Throw("ReferenceError"), 0)
    ELSE IF ValidUpdateUser(body)
    THEN LET updates == Pick(body, {"name", "email", "password"})
         IN  IF DOMAIN updates = {}
             THEN Outcome(s, SendMessage(400, "No valid fields provided for update"), 0)
             ELSE IF fail = 1 THEN Outcome(s, Throw("DatastoreError"), 1)
             ELSE LET t == UpdateUsers(s, id, updates)
                  IN  Outcome(t, Json({u \in t.users : u.id = id}), 1)
    ELSE Outcome(s, SendMessage(400, "Invalid request body"), 0)

---------------------------------------------------------------------------
(* REST API/server.js : orders *)

\* const vatRate = 1.2, in tenths
vatRate == 12

\* product.price * quantity * vatRate, in tenths of a unit
Total(price, quantity) == price * quantity * vatRate

\* CreateOrderSchema.safeParse(body).success
ValidCreateOrder(body) ==
    /\ Has(body, "userId")
    /\ Has(body, "productId")
    /\ Has(body, "quantity")
    /\ body.quantity > 0

\* UpdateOrderSchema.safeParse(body).success
ValidUpdateOrder(body) == Has(body, "quantity") => body.quantity > 0

\* The INSERT of line 519 names its columns unquoted (userId is read as
\* userid); the helper of line 644 quotes them ("userId").  The table the
\* repository does not create has one spelling or the other.
OrdersInsertable(quoted) == ~quoted
OrdersUpdatable(quoted) == quoted

SelectPriceNoWhere(s, productId) == s.products

\* SELECT price FROM products WHERE id = ${result.data.productId}
SelectPrice(s, productId) == {p \in s.products : p.id = productId}

\* an INSERT that would store the order only while its product is stored
InsertOrderIfProduct(s, order) ==
    IF \E p \in s.products : p.id = order.productId
    THEN [s EXCEPT !.orders = @ \cup {order}, !.nextId.orders = @ + 1]
    ELSE s

\* INSERT INTO orders ... RETURNING *: the statement names no product row
InsertOrder(s, order) ==
    [s EXCEPT !.orders = @ \cup {order}, !.nextId.orders = @ + 1]

\* app.post("/orders")
postOrders(s, quoted, body, fail) ==
    IF ~ValidCreateOrder(body)
    THEN Outcome(s, SendMessage(400, "Invalid order data"), 0)
    ELSE IF fail = 1
    THEN Outcome(s, SendError(500, "Failed to create order", "db"), 1)
    ELSE LET product == SelectPrice(s, body.productId)
         IN  IF product = {}
             THEN Outcome(s, SendMessage(404, "Product not found"), 1)
             ELSE LET price == (CHOOSE p \in product : TRUE).price
                      total == Total(price, body.quantity)
                      order == [id |-> s.nextId.orders, userId |-> body.userId,
                                productId |-> body.productId,
                                quantity |-> body.quantity, total |-> total]
                  IN  IF fail = 2 \/ ~OrdersInsertable(quoted)
                      THEN Outcome(s, SendError(500, "Failed to create order", "db"), 2)
                      ELSE Outcome(InsertOrder(s, order), SendRow(201, order), 2)

\* app.get("/orders")
getOrders(s, fail) ==
    IF fail = 1 THEN Outcome(s, Throw("DatastoreError"), 1)
    ELSE Outcome(s, SendRows(200, s.orders), 1)

\* app.get("/orders/:id")
getOrderById(s, id, fail) ==
    IF fail = 1 THEN Outcome(s, Throw("DatastoreError"), 1)
    ELSE LET order == {o \in s.orders : o.id = id}
         IN  IF order # {}
             THEN Outcome(s, Json(order), 1)
             ELSE Outcome(s, SendMessage(404, "Order not found"), 1)

\* app.delete("/orders/:id")
deleteOrder(s, id, fail) ==
    IF fail = 1 THEN Outcome(s, Throw("DatastoreError"), 1)
    ELSE LET order == {o \in s.orders : o.id = id}
             t == [s EXCEPT !.orders = @ \ order]
         IN  IF order # {}
             THEN Outcome(t, Json(order), 1)
             ELSE Outcome(t, SendMessage(404, "Order not found"), 1)

\* app.patch("/orders/:id"): sql(result.data, "userId", "productId",
\* "quantity") writes all three columns; postgres.js refuses an undefined
\* value (UNDEFINED_VALUE) before anything is sent
patchOrder(s, quoted, id, body, fail) ==
    IF ValidUpdateOrder(body)
    THEN IF ~({"userId", "productId", "quantity"} \subseteq DOMAIN body)
         THEN Outcome(s, Throw("UNDEFINED_VALUE"), 0)
         ELSE IF fail = 1 \/ ~OrdersUpdatable(quoted)
         THEN Outcome(s, Throw("DatastoreError"), 1)
         ELSE LET set == Pick(body, {"userId", "productId", "quantity"})
                  t == [s EXCEPT !.orders =
                           {IF o.id = id THEN Assign(o, set) ELSE o : o \in @}]
              IN  Outcome(t, Json({o \in t.orders : o.id = id}), 1)
    ELSE Outcome(s, SendMessage(400, "Invalid request body"), 0)

---------------------------------------------------------------------------
(* NosqlNodejs/index.js *)

\* new ObjectId(text) accepts hexadecimal texts only (BSONError otherwise)
IsObjectIdText(text) == text \in {"01", "0a", "0A"}

\* new ObjectId(text); ObjectIds are numbered in the model
ObjectId(text) == IF text = "01" THEN 1 ELSE 10

\* ObjectId.toJSON(): the lower-case hexadecimal text
toHexString(oid) == IF oid = 1 THEN "01" ELSE "0a"

DocOutcome(d, r, n) == [db |-> d, res |-> r, stmts |-> n]

Collections(d) == [products |-> d.products, categories |-> d.categories]

\* CreateProductSchema.safeParse(body).success (index.js)
ValidCreateDocProduct(body) ==
    /\ Has(body, "name")
    /\ Has(body, "about")
    /\ Has(body, "price")
    /\ Has(body, "categoryIds")
    /\ body.price > 0

\* CreateCategorySchema.safeParse(body).success
ValidCreateCategory(body) == Has(body, "name")

\* app.post("/products") of index.js
docPostProducts(d, body, fail) ==
    IF ValidCreateDocProduct(body)
    THEN IF \E i \in 1..Len(body.categoryIds) : ~IsObjectIdText(body.categoryIds[i])
         THEN DocOutcome(d, Throw("BSONError"), 0)
         ELSE IF fail = 1 THEN DocOutcome(d, Throw("DatastoreError"), 1)
         ELSE LET categoryObjectIds ==
                      [i \in 1..Len(body.categoryIds) |-> ObjectId(body.categoryIds[i])]
                  doc == [name |-> body.name, about |-> body.about,
                          price |-> body.price, categoryIds |-> categoryObjectIds]
                  stored == Assign(doc, [_id |-> d.nextObjectId])
                  sent == Assign(stored, [categoryIds |->
                              [i \in 1..Len(categoryObjectIds) |->
                                  toHexString(categoryObjectIds[i])]])
              IN  DocOutcome([d EXCEPT !.products = @ \cup {stored},
                                       !.nextObjectId = @ + 1],
                             SendRow(200, sent), 1)
    ELSE DocOutcome(d, SendMessage(400, "ZodError"), 0)

\* app.post("/categories")
docPostCategories(d, body, fail) ==
    IF ValidCreateCategory(body)
    THEN IF fail = 1 THEN DocOutcome(d, Throw("DatastoreError"), 1)
         ELSE LET stored == [_id |-> d.nextObjectId, name |-> body.name]
              IN  DocOutcome([d EXCEPT !.categories = @ \cup {stored},
                                       !.nextObjectId = @ + 1],
                             SendRow(200, stored), 1)
    ELSE DocOutcome(d, SendMessage(400, "ZodError"), 0)

\* app.get("/products") of index.js: $match {} then $lookup of the categories
docGetProducts(d, fail) ==
    IF fail = 1 THEN DocOutcome(d, Throw("DatastoreError"), 1)
    ELSE DocOutcome(d,
            SendRows(200,
                {Assign(p, [categories |->
                      {c \in d.categories :
                          \E i \in 1..Len(p.categoryIds) : p.categoryIds[i] = c._id}])
                  : p \in d.products}),
            1)

---------------------------------------------------------------------------
(* Requests the clients send *)

Names == {"", "Widget"}
Abouts == {"blue"}
PriceTexts == {"", "1", "2abc", "abc"}

\* every object that carries some of the keys of `full`
Partial(fulls) == {Pick(f, K) : f \in fulls, K \in SUBSET {"name", "about",
                      "price", "email", "password", "userId", "productId",
                      "quantity"}}

ProductQueries ==
    Partial([name : Names, about : {"blue", "red"}, price : PriceTexts])

CreateProductBodies ==
    [name : Names, about : Abouts, price : 0..MaxPrice] \cup {[name |-> "Widget"]}

UserBodies == [name : {"Bob"}, email : {"b@x.io", "bad"},
               password : {"hunter22", "abc"}]

CreateUserBodies == UserBodies \cup {[name |-> "Bob", email |-> "b@x.io"]}

UpdateUserBodies == Partial(UserBodies)

OrderBodies == [userId : {1}, productId : Ids, quantity : 0..MaxQuantity]

CreateOrderBodies == OrderBodies \cup {[userId |-> 1, quantity |-> 1]}

\* no field, the quantity alone, or all three fields
UpdateOrderBodies ==
    {Pick(f, K) : f \in OrderBodies,
                  K \in {{}, {"quantity"}, {"userId", "productId", "quantity"}}}

CreateDocProductBodies ==
    [name : {"Widget"}, about : Abouts, price : 0..MaxPrice,
     categoryIds : {<<>>, <<"01">>, <<"0A">>, <<"zz">>}]
        \cup {[name |-> "Widget"]}

CreateCategoryBodies == [name : {"tools", "toys"}] \cup {[label |-> "tools"]}

\* the payloads sent while the datastore is failing
AnyQuery == <<>>
AnyProduct == [name |-> "Widget", about |-> "blue", price |-> 1]
AnyUser == [name |-> "Bob", email |-> "b@x.io", password |-> "hunter22"]
AnyOrder == [userId |-> 1, productId |-> 1, quantity |-> 1]
AnyDocProduct == [name |-> "Widget", about |-> "blue", price |-> 1,
                  categoryIds |-> <<"01">>]
AnyCategory == [name |-> "tools"]

\* req.params.id, req.query, req.body
Request(route, id, query, body, fail) ==
    [route |-> route, id |-> id, query |-> query, body |-> body, fail |-> fail]

NoRequest == Request("none", 0, <<>>, <<>>, 0)

\* a POST /orders handler between two awaits: where it stands, its parsed
\* body, and the price its SELECT returned
Pending(pc, body, fail, price) ==
    [pc |-> pc, body |-> body, fail |-> fail, price |-> price]

NoPending == Pending("idle", <<>>, 0, 0)
Idle == [status |-> 0, thrown |-> "none", body |-> NoBody]

---------------------------------------------------------------------------
(* Serving one request *)

Serve(request, out) ==
    /\ req' = request
    /\ res' = out.res
    /\ stmts' = out.stmts
    /\ before' = Tables(sql)
    /\ sql' = out.sql
    /\ UNCHANGED <<db, quotedColumns, omitByKey, pending>>

ServeDoc(request, out) ==
    /\ req' = request
    /\ res' = out.res
    /\ stmts' = out.stmts
    /\ before' = Collections(db)
    /\ db' = out.db
    /\ UNCHANGED <<sql, quotedColumns, omitByKey, pending>>

GetProducts ==
    \E query \in ProductQueries, fail \in 0..1 :
        /\ fail # 0 => query = AnyQuery
        /\ Serve(Request("GET /products", 0, query, <<>>, fail),
                 getProducts(sql, query, fail))

GetProductById ==
    \E id \in Ids, fail \in 0..1 :
        Serve(Request("GET /products/:id", id, <<>>, <<>>, fail),
              getProductById(sql, id, fail))

PostProducts ==
    \E body \in CreateProductBodies, fail \in 0..1 :
        /\ sql.nextId.products <= MaxId
        /\ fail # 0 => body = AnyProduct
        /\ Serve(Request("POST /products", 0, <<>>, body, fail),
                 postProducts(sql, body, fail))

DeleteProduct ==
    \E id \in Ids, fail \in 0..1 :
        Serve(Request("DELETE /products/:id", id, <<>>, <<>>, fail),
              deleteProduct(sql, id, fail))

GetUsers ==
    \E fail \in 0..1 :
        Serve(Request("GET /users", 0, <<>>, <<>>, fail),
              getUsersList(sql, omitByKey, fail))

GetUserById ==
    \E id \in Ids, fail \in 0..1 :
        Serve(Request("GET /users/:id", id, <<>>, <<>>, fail),
              getUserById(sql, id, fail))

PostUsers ==
    \E body \in CreateUserBodies, fail \in 0..1 :
        /\ sql.nextId.users <= MaxId
        /\ fail # 0 => body = AnyUser
        /\ Serve(Request("POST /users", 0, <<>>, body, fail),
                 postUsers(sql, body, fail))

DeleteUser ==
    \E id \in Ids, fail \in 0..1 :
        Serve(Request("DELETE /users/:id", id, <<>>, <<>>, fail),
              deleteUser(sql, id, fail))

PutUser ==
    \E id \in Ids, body \in CreateUserBodies, fail \in 0..1 :
        /\ fail # 0 => body = AnyUser
        /\ Serve(Request("PUT /users/:id", id, <<>>, body, fail),
                 putUser(sql, id, body, fail))

PatchUser ==
    \E id \in Ids, body \in UpdateUserBodies, fail \in 0..1 :
        /\ fail # 0 => body = AnyUser
        /\ Serve(Request("PATCH /users/:id", id, <<>>, body, fail),
                 patchUser(sql, id, body, fail))

PostOrders ==
    \E body \in CreateOrderBodies, fail \in 0..2 :
        /\ sql.nextId.orders <= MaxOrders
        /\ Serve(Request("POST /orders", 0, <<>>, body, fail),
                 postOrders(sql, quotedColumns, body, fail))

GetOrders ==
    \E fail \in 0..1 :
        Serve(Request("GET /orders", 0, <<>>, <<>>, fail), getOrders(sql, fail))

GetOrderById ==
    \E id \in OrderIds, fail \in 0..1 :
        Serve(Request("GET /orders/:id", id, <<>>, <<>>, fail),
              getOrderById(sql, id, fail))

DeleteOrder ==
    \E id \in OrderIds, fail \in 0..1 :
        Serve(Request("DELETE /orders/:id", id, <<>>, <<>>, fail),
              deleteOrder(sql, id, fail))

PatchOrder ==
    \E id \in OrderIds, body \in UpdateOrderBodies, fail \in 0..1 :
        /\ fail # 0 => body = AnyOrder
        /\ Serve(Request("PATCH /orders/:id", id, <<>>, body, fail),
                 patchOrder(sql, quotedColumns, id, body, fail))

DocPostProducts ==
    \E body \in CreateDocProductBodies, fail \in 0..1 :
        /\ db.nextObjectId <= MaxId
        /\ fail # 0 => body = AnyDocProduct
        /\ ServeDoc(Request("POST /products", 0, <<>>, body, fail),
                    docPostProducts(db, body, fail))

DocPostCategories ==
    \E body \in CreateCategoryBodies, fail \in 0..1 :
        /\ db.nextObjectId <= MaxId
        /\ fail # 0 => body = AnyCategory
        /\ ServeDoc(Request("POST /categories", 0, <<>>, body, fail),
                    docPostCategories(db, body, fail))

DocGetProducts ==
    \E fail \in 0..1 :
        ServeDoc(Request("GET /products", 0, <<>>, <<>>, fail),
                 docGetProducts(db, fail))

---------------------------------------------------------------------------
(* Specifications *)

EmptySql == [products |-> {}, users |-> {}, orders |-> {},
             nextId |-> [products |-> 1, users |-> 1, orders |-> 1]]

EmptyDb == [products |-> {}, categories |-> {}, nextObjectId |-> 1]

\* rows the database may hold when the server starts
SeedUser(i) == [id |-> i, name |-> "Ann", email |-> "a@x.io",
                password |-> hash("secret")]

SeedProduct(i) == [id |-> i, name |-> "Widget", about |-> "blue",
                   price |-> ((i - 1) % MaxPrice) + 1]

SeedOrder(i) == [id |-> i, userId |-> 1, productId |-> 1, quantity |-> 1,
                 total |-> Total(SeedProduct(1).price, 1)]

InitRest ==
    /\ db = EmptyDb
    /\ req = NoRequest
    /\ res = Idle
    /\ stmts = 0
    /\ before = Tables(sql)
    /\ pending = NoPending

\* the products service on an empty table
InitProducts ==
    /\ sql = EmptySql
    /\ quotedColumns = FALSE
    /\ omitByKey = FALSE
    /\ InitRest

NextProducts == GetProducts \/ GetProductById \/ PostProducts \/ DeleteProduct

SpecProducts == InitProducts /\ [][NextProducts]_vars

\* the users service on a table that holds some users already
InitUsers ==
    /\ \E n \in 0..MaxId :
          sql = [EmptySql EXCEPT !.users = {SeedUser(i) : i \in 1..n},
                                 !.nextId.users = n + 1]
    /\ quotedColumns = FALSE
    /\ omitByKey \in BOOLEAN
    /\ InitRest

NextUsers ==
    GetUsers \/ GetUserById \/ PostUsers \/ DeleteUser \/ PutUser \/ PatchUser

SpecUsers == InitUsers /\ [][NextUsers]_vars

\* the orders service on a catalogue of products, with some orders already
InitOrders ==
    /\ \E n \in 0..MaxOrders :
          sql = [EmptySql EXCEPT !.products = {SeedProduct(i) : i \in 1..MaxId},
                                 !.nextId.products = MaxId + 1,
                                 !.orders = {SeedOrder(i) : i \in 1..n},
                                 !.nextId.orders = n + 1]
    /\ quotedColumns \in BOOLEAN
    /\ omitByKey = FALSE
    /\ InitRest

NextOrders == PostOrders \/ GetOrders \/ GetOrderById \/ DeleteOrder \/ PatchOrder

SpecOrders == InitOrders /\ [][NextOrders]_vars

\* the document service on empty collections
InitDoc ==
    /\ sql = EmptySql
    /\ quotedColumns = FALSE
    /\ omitByKey = FALSE
    /\ InitRest

NextDoc == DocPostProducts \/ DocPostCategories \/ DocGetProducts

SpecDoc == InitDoc /\ [][NextDoc]_vars

\* the relational service as a whole
Init == InitProducts \/ InitUsers \/ InitOrders

Next == NextProducts \/ NextUsers \/ NextOrders

Spec == Init /\ [][Next]_vars

---------------------------------------------------------------------------
(* POST /orders await by await, with DELETE /products/:id served meanwhile *)

\* the suspended handler answers and ends
Settle(body, out) ==
    /\ req' = Request("POST /orders", 0, <<>>, body, pending.fail)
    /\ res' = out.res
    /\ stmts' = out.stmts
    /\ before' = Tables(sql)
    /\ sql' = out.sql
    /\ pending' = [pending EXCEPT !.pc = "done"]
    /\ UNCHANGED <<db, quotedColumns, omitByKey>>

\* the suspended handler moves on to its next await
Suspend(pc, body, fail, price) ==
    /\ pending' = Pending(pc, body, fail, price)
    /\ UNCHANGED <<sql, db, quotedColumns, omitByKey, req, res, before, stmts>>

\* server.js:499-506  safeParse, 400 on an invalid body
PostOrdersParse ==
    \E body \in CreateOrderBodies, fail \in 0..2 :
        /\ pending.pc \in {"idle", "done"}
        /\ sql.nextId.orders <= MaxOrders
        /\ fail # 0 => body = AnyOrder
        /\ IF ValidCreateOrder(body)
           THEN Suspend("select", body, fail, 0)
           ELSE /\ req' = Request("POST /orders", 0, <<>>, body, fail)
                /\ res' = SendMessage(400, "Invalid order data")
                /\ stmts' = 0
                /\ before' = Tables(sql)
                /\ pending' = NoPending
                /\ UNCHANGED <<sql, db, quotedColumns, omitByKey>>

\* server.js:508-513  the SELECT resolves: 404 without a row, 500 on failure
PostOrdersSelect ==
    /\ pending.pc = "select"
    /\ LET body == pending.body
           product == SelectPrice(sql, body.productId)
       IN  IF pending.fail = 1
           THEN Settle(body, Outcome(sql,
                    SendError(500, "Failed to create order", "db"), 1))
           ELSE IF product = {}
           THEN Settle(body, Outcome(sql,
                    SendMessage(404, "Product not found"), 1))
           ELSE Suspend("insert", body, pending.fail,
                        (CHOOSE p \in product : TRUE).price)

\* server.js:515-528  the INSERT resolves: 201 with the order, 500 on failure
PostOrdersInsert ==
    /\ pending.pc = "insert"
    /\ LET body == pending.body
           order == [id |-> sql.nextId.orders, userId |-> body.userId,
                     productId |-> body.productId, quantity |-> body.quantity,
                     total |-> Total(pending.price, body.quantity)]
       IN  IF pending.fail = 2 \/ ~OrdersInsertable(quotedColumns)
           THEN Settle(body, Outcome(sql,
                    SendError(500, "Failed to create order", "db"), 2))
           ELSE Settle(body, Outcome(InsertOrder(sql, order),
                    SendRow(201, order), 2))

InitRace == InitOrders

NextRace ==
    PostOrdersParse \/ PostOrdersSelect \/ PostOrdersInsert \/ DeleteProduct

SpecRace == InitRace /\ [][NextRace]_vars

---------------------------------------------------------------------------
(* Properties *)

ReadOneRoutes == {"GET /products/:id", "GET /users/:id", "GET /orders/:id"}
DeleteRoutes == {"DELETE /products/:id", "DELETE /users/:id", "DELETE /orders/:id"}
UpdateRoutes == {"PUT /users/:id", "PATCH /users/:id", "PATCH /orders/:id"}

\* the rows of the table a route works on
RowsIn(tables, route) ==
    CASE route \in {"GET /products", "GET /products/:id", "POST /products",
                    "DELETE /products/:id"} -> tables.products
      [] route \in {"GET /users", "GET /users/:id", "POST /users",
                    "PUT /users/:id", "PATCH /users/:id",
                    "DELETE /users/:id"} -> tables.users
      [] OTHER -> tables.orders

\* the same, as they were before the last request
RowsBefore(route) == RowsIn(before, route)

\* the stored entities the last request named by its identifier
Named == {r \in RowsBefore(req.route) : r.id = req.id}

\* the body of the last request passes the schema of its route
BodyValid ==
    CASE req.route = "POST /products" -> ValidCreateProduct(req.body)
      [] req.route \in {"POST /users", "PUT /users/:id"} -> ValidCreateUser(req.body)
      [] req.route = "PATCH /users/:id" -> ValidUpdateUser(req.body)
      [] req.route = "POST /orders" -> ValidCreateOrder(req.body)
      [] req.route = "PATCH /orders/:id" -> ValidUpdateOrder(req.body)
      [] OTHER -> TRUE

Unchanged == Tables(sql) = before

\* C1: a read-one, update or delete request that names an identifier absent
\* from the store (valid, non-empty body where the route takes one, datastore
\* answering) gets status 404 and leaves every table as it was.
C1_AbsentIs404 ==
    ( /\ req.route \in ReadOneRoutes \cup UpdateRoutes \cup DeleteRoutes
      /\ req.fail = 0
      /\ BodyValid
      /\ req.route \in UpdateRoutes => DOMAIN req.body # {}
      /\ Named = {} )
    => (res.status = 404 /\ Unchanged)

\* C2: a partial update whose valid body carries no field gets status 400,
\* sends no statement to the datastore and leaves every table as it was.
C2_EmptyPatchIs400 ==
    ( /\ req.route \in {"PATCH /users/:id", "PATCH /orders/:id"}
      /\ BodyValid
      /\ DOMAIN req.body = {} )
    => (res.status = 400 /\ stmts = 0 /\ Unchanged)

\* C3: every stored order whose product is stored has
\* total = price of that product * quantity * 1.2 (totals are in tenths).
C3_TotalDerived ==
    \A o \in sql.orders : \A p \in sql.products :
        p.id = o.productId => o.total = p.price * o.quantity * 12

\* C4: POST /orders with a valid body whose productId matches no stored
\* product, the datastore answering, gets status 404 and the orders table
\* is as it was.
C4_UnknownProductIs404 ==
    ( /\ req.route = "POST /orders"
      /\ req.fail = 0
      /\ ValidCreateOrder(req.body)
      /\ \A p \in before.products : p.id # req.body.productId )
    => (res.status = 404 /\ sql.orders = before.orders)

\* C4 happens: an order for an unknown product was refused while the table
\* of products was not empty.
C4_Witness ==
    /\ req.route = "POST /orders"
    /\ req.fail = 0
    /\ ValidCreateOrder(req.body)
    /\ before.products # {}
    /\ \A p \in before.products : p.id # req.body.productId
    /\ res.status = 404

\* C5: a valid create payload is answered by an entity that carries every
\* submitted field with its value, and an identifier no stored entity of the
\* resource had before.
C5_CreateEchoes ==
    ( /\ req.route \in {"POST /products", "POST /users"}
      /\ req.fail = 0
      /\ BodyValid )
    => /\ res.body.kind = "row"
       /\ \A row \in res.body.rows :
            /\ \A k \in DOMAIN req.body : Has(row, k) /\ row[k] = req.body[k]
            /\ Has(row, "id")
            /\ \A r \in RowsBefore(req.route) : r.id # row.id

\* C6: a DELETE of a stored entity gets status 200 with the entity as it was
\* and removes it; the same DELETE sent next gets status 404.
C6_DeleteTwice ==
    [][ /\ ( /\ req'.route \in DeleteRoutes
             /\ req'.fail = 0
             /\ \E r \in RowsIn(before', req'.route) : r.id = req'.id )
           => ( /\ res'.status = 200
                /\ res'.body.kind = "row"
                /\ res'.body.rows =
                      {r \in RowsIn(before', req'.route) : r.id = req'.id}
                /\ \A r \in RowsIn(before', req'.route) :
                      r.id = req'.id => r \notin sql'.products \cup sql'.users
                                                   \cup sql'.orders )
        /\ ( /\ req.route \in DeleteRoutes
             /\ req.fail = 0
             /\ Named # {}
             /\ req' = req )
           => res'.status = 404 ]_vars

\* the ?price= texts that are a number, and the number
Number(text) ==
    CASE text = "1" -> 1
      [] text = "2" -> 2
      [] text = "2.0" -> 2
      [] text = "3" -> 3
      [] OTHER -> NaN

\* C7 as stated: GET /products returns exactly the rows equal to every
\* supplied filter, whatever the filter values.
C7_FilterEverySupplied ==
    ( req.route = "GET /products" /\ req.fail = 0 )
    => /\ res.status = 200
       /\ res.body.rows =
            {r \in before.products :
                /\ Has(req.query, "name") => r.name = req.query.name
                /\ Has(req.query, "about") => r.about = req.query.about
                /\ Has(req.query, "price") => r.price = Number(req.query.price)}

\* C7 amended: GET /products returns exactly the rows equal to every filter
\* supplied with a non-empty text, the price compared with the number
\* parseFloat reads from its text; a filter supplied as the empty text counts
\* as absent.  The table is left as it was.
C7_FilterEveryNonEmpty ==
    ( req.route = "GET /products" /\ req.fail = 0 )
    => /\ res.status = 200
       /\ res.body.kind = "rows"
       /\ res.body.rows =
            {r \in before.products :
                /\ (Has(req.query, "name") /\ req.query.name # "")
                      => r.name = req.query.name
                /\ (Has(req.query, "about") /\ req.query.about # "")
                      => r.about = req.query.about
                /\ (Has(req.query, "price") /\ req.query.price # "")
                      => r.price = parseFloat(req.query.price)}
       /\ Unchanged

\* C7 happens: two filters at once kept some rows and dropped others.
C7_Witness ==
    /\ req.route = "GET /products"
    /\ req.fail = 0
    /\ Truthy(req.query, "name")
    /\ Truthy(req.query, "price")
    /\ res.body.rows # {}
    /\ res.body.rows # before.products
    /\ \E r \in before.products \ res.body.rows : r.name = req.query.name

\* C8: no row in the answer of GET /users or GET /users/:id carries the
\* password column of a stored user.
C8_NoPasswordInReads ==
    req.route \in {"GET /users", "GET /users/:id"}
    => \A row \in res.body.rows : \A u \in before.users :
          ~(Has(row, "password") /\ row.password = u.password)

\* C9: a request whose datastore call fails is answered with status 500, a
\* message and the error text, and sends nothing after the failed statement.
C9_FailureIs500 ==
    req.fail # 0
    => /\ res.status = 500
       /\ res.body.message # ""
       /\ res.body.error # ""
       /\ stmts = req.fail

\* C10: a read-one request that names a stored entity, the datastore
\* answering, gets status 200 with that entity and leaves the tables as
\* they were.
C10_ReadOnePresent ==
    ( req.route \in ReadOneRoutes /\ req.fail = 0 /\ Named # {} )
    => (res.status = 200 /\ res.body.kind = "row" /\ res.body.rows = Named
        /\ Unchanged)

\* the table a route works on
TableOf(route) ==
    CASE route \in {"GET /products", "GET /products/:id", "POST /products",
                    "DELETE /products/:id"} -> "products"
      [] route \in {"GET /users", "GET /users/:id", "POST /users",
                    "PUT /users/:id", "PATCH /users/:id",
                    "DELETE /users/:id"} -> "users"
      [] OTHER -> "orders"

\* C11: a partial update of a stored row whose valid body carries a
\* non-empty subset of the optional fields, the datastore answering, gets
\* status 200 with the updated row, writes exactly the supplied fields of
\* the named row and leaves every other field and every other row as it was.
C11_PatchSetsSupplied ==
    ( /\ req.route \in {"PATCH /users/:id", "PATCH /orders/:id"}
      /\ req.fail = 0
      /\ BodyValid
      /\ DOMAIN req.body # {}
      /\ Named # {} )
    => /\ res.status = 200
       /\ res.body.kind = "row"
       /\ res.body.rows = {Assign(r, req.body) : r \in Named}
       /\ Tables(sql) =
            [before EXCEPT ![TableOf(req.route)] =
                {IF r.id = req.id THEN Assign(r, req.body) ELSE r : r \in @}]

\* C12: the insert of a POST /orders handler whose lookup found the product
\* answers 201 and stores the order whether or not the product is still
\* stored when the insert runs (datastore answering): a DELETE served
\* between the lookup and the insert is not noticed.
C12_InsertUnchecked ==
    [][ ( /\ pending.pc = "insert"
          /\ pending'.pc = "done"
          /\ pending.fail = 0
          /\ OrdersInsertable(quotedColumns) )
        => /\ req'.route = "POST /orders"
           /\ res'.status = 201
           /\ \E o \in sql'.orders \ sql.orders :
                 /\ o.productId = pending.body.productId
                 /\ res'.body.rows = {o}
           /\ sql'.products = sql.products ]_vars

\* the race has happened: the order request was answered 201 last, its
\* lookup had found the product, and the stored order names no stored product
C12_Witness ==
    /\ req.route = "POST /orders"
    /\ res.status = 201
    /\ pending.pc = "done"
    /\ pending.price > 0
    /\ \E o \in res.body.rows :
          /\ o \in sql.orders
          /\ \A p \in sql.products : p.id # o.productId
          /\ \A p \in before.products : p.id # o.productId

\* C13: every request the relational service has finished handling, the
\* datastore answering, was answered: its handler sent a response and raised
\* no error past it.
C13_AlwaysAnswered ==
    (req.route # "none" /\ req.fail = 0)
    => (res.status # 0 /\ res.thrown = "none")

====
